---- MODULE Spec2Model ----
(***************************************************************************)
(* A model of src/main.py: BudgetManager (category registry, transaction   *)
(* ledger, budget targets, running totals, monthly report, budget status), *)
(* InvestmentAdvisor, TaxAssistant and FinancialAIAgent.                   *)
(*                                                                         *)
(* Amounts are integers.  A Python float produced by a division or by a    *)
(* product with a tax rate is an exact rational <<numerator, denominator>> *)
(* in lowest terms with a positive denominator; rounding of binary floats  *)
(* is not modelled.  A datetime is the pair <<year, month>>: no operation  *)
(* of the program reads more of a date than its year and month, except     *)
(* strftime('%Y-%m-%d'), which is modelled as keeping that pair.           *)
(***************************************************************************)
EXTENDS Integers, Sequences, FiniteSets, TLC

VARIABLES
    categories,        \* BudgetManager.categories: category -> running total
    transactions,      \* BudgetManager.transactions: the ledger, in insertion order
    monthly_budget,    \* BudgetManager.monthly_budget: a dict, category -> target
    risk_tolerance,    \* InvestmentAdvisor.risk_tolerance
    investment_goals,  \* InvestmentAdvisor.investment_goals
    market_conditions, \* InvestmentAdvisor.market_conditions
    call,              \* the call made last: its name, the exception it raised
    returned           \* the value the call made last returned (None if it raised)

vars == <<categories, transactions, monthly_budget, risk_tolerance,
          investment_goals, market_conditions, call, returned>>

manager == <<categories, transactions, monthly_budget>>
advisor == <<risk_tolerance, investment_goals, market_conditions>>

None == "None"

(***************************************************************************)
(* Bounds of the model.                                                    *)
(***************************************************************************)
MaxTx == 2        \* longest ledger
MaxAmount == 2    \* largest amount of a transaction or a budget target
Delta == 2        \* incomes this close to every bracket edge are tried

(***************************************************************************)
(* Exact rationals for the floats the program computes.                    *)
(***************************************************************************)
Abs(n) == IF n < 0 THEN -n ELSE n

RECURSIVE GCD(_, _)
GCD(a, b) == IF b = 0 THEN a ELSE GCD(b, a % b)

Rat(n, d) ==
    LET g == GCD(Abs(n), Abs(d))
        s == IF d < 0 THEN -1 ELSE 1
    IN  <<(s * n) \div g, (s * d) \div g>>

RatInt(n) == <<n, 1>>
RatAdd(a, b) == Rat(a[1] * b[2] + b[1] * a[2], a[2] * b[2])
RatMul(a, b) == Rat(a[1] * b[1], a[2] * b[2])
RatDiv(a, b) == Rat(a[1] * b[2], a[2] * b[1])    \* b # 0
RatLess(a, b) == a[1] * b[2] < b[1] * a[2]

min(a, b) == IF a < b THEN a ELSE b
max(a, b) == IF a > b THEN a ELSE b

RECURSIVE sum(_)
sum(s) == IF s = <<>> THEN 0 ELSE Head(s) + sum(Tail(s))

Amount(s) == [i \in DOMAIN s |-> s[i].amount]

(***************************************************************************)
(* BudgetManager                                                           *)
(***************************************************************************)
Registry ==
    {"Housing", "Transportation", "Food", "Utilities", "Healthcare",
     "Entertainment", "Savings", "Income", "Other", "mortgage_interest",
     "charitable_contributions", "medical_expenses", "child_care", "education"}

BudgetManagerInit ==
    /\ categories = [c \in Registry |-> 0]
    /\ transactions = <<>>
    /\ monthly_budget = <<>>

Transaction(date, amount, category, description, transaction_type) ==
    [date |-> date, amount |-> amount, category |-> category,
     description |-> description, transaction_type |-> transaction_type]

valid_any(category) == TRUE

valid(category) == category \in DOMAIN categories

set_budget(category, amount) ==
    /\ IF valid(category)
       THEN /\ monthly_budget' =
                   [c \in DOMAIN monthly_budget \cup {category} |->
                       IF c = category THEN amount ELSE monthly_budget[c]]
            /\ call' = [op |-> "set_budget", category |-> category, raised |-> None]
       ELSE /\ call' = [op |-> "set_budget", category |-> category,
                        raised |-> "ValueError"]
            /\ UNCHANGED monthly_budget
    /\ returned' = None
    /\ UNCHANGED <<categories, transactions, advisor>>

get_budget(self, category) ==
    IF category \in DOMAIN self.monthly_budget
    THEN self.monthly_budget[category] ELSE 0

\* lines 66-69 with the expense credited to 'Other'
posted_expense_to_other(amount, category, transaction_type) ==
    IF transaction_type = "expense"
    THEN [categories EXCEPT !["Other"] = @ + amount]
    ELSE [categories EXCEPT !["Income"] = @ + amount]

\* lines 66-69 with the income credited to the transaction's own category
posted_income_to_own(amount, category, transaction_type) ==
    [categories EXCEPT ![category] = @ + amount]

\* lines 66-69 with the running total overwritten instead of incremented
posted_overwrite(amount, category, transaction_type) ==
    IF transaction_type = "expense"
    THEN [categories EXCEPT ![category] = amount]
    ELSE [categories EXCEPT !["Income"] = amount]

posted(amount, category, transaction_type) ==
    IF transaction_type = "expense"
    THEN [categories EXCEPT ![category] = @ + amount]
    ELSE [categories EXCEPT !["Income"] = @ + amount]

add_transaction(amount, category, description, transaction_type, transaction_date) ==
    /\ IF ~valid(category)
       THEN /\ call' = [op |-> "add_transaction", category |-> category,
                        raised |-> "ValueError"]
            /\ UNCHANGED <<categories, transactions>>
       ELSE /\ transactions' =
                   Append(transactions,
                          Transaction(transaction_date, amount, category,
                                      description, transaction_type))
            /\ categories' = posted(amount, category, transaction_type)
            /\ call' = [op |-> "add_transaction", category |-> category,
                        raised |-> None]
    /\ returned' = None
    /\ UNCHANGED <<monthly_budget, advisor>>

\* line 74 with the month ignored
in_period_year_only(t, year, month) == t.date[1] = year

in_period(t, year, month) == t.date[1] = year /\ t.date[2] = month

\* lines 100-101 with the expenses divided by the income
savings_rate_of_expenses(total_income, total_expenses) ==
    IF total_income > 0
    THEN RatMul(RatDiv(RatInt(total_expenses), RatInt(total_income)), RatInt(100))
    ELSE RatInt(0)

savings_rate(total_income, total_expenses) ==
    IF total_income > 0
    THEN RatMul(RatDiv(RatInt(total_income - total_expenses), RatInt(total_income)),
                RatInt(100))
    ELSE RatInt(0)

strftime(date) == date

\* get_monthly_report as a function of the BudgetManager it is called on
monthly_report(self, year, month) ==
    LET InPeriod(t) == in_period(t, year, month)
        monthly_transactions == SelectSeq(self.transactions, InPeriod)
        IsIncome(t) == t.transaction_type = "income"
        IsExpense(t) == t.transaction_type = "expense"
        total_income == sum(Amount(SelectSeq(monthly_transactions, IsIncome)))
        total_expenses == sum(Amount(SelectSeq(monthly_transactions, IsExpense)))
        of(category) ==
            LET InCategory(t) == t.category = category
            IN  SelectSeq(monthly_transactions, InCategory)
        entry(cat_transactions, category) ==
            [total |-> sum(Amount(cat_transactions)),
             count |-> Len(cat_transactions),
             budget |-> get_budget(self, category),
             transactions |->
                 [i \in DOMAIN cat_transactions |->
                     [date |-> strftime(cat_transactions[i].date),
                      amount |-> cat_transactions[i].amount,
                      description |-> cat_transactions[i].description]]]
    IN  [total_income |-> total_income,
         total_expenses |-> total_expenses,
         transactions_by_category |->
             [category \in {c \in DOMAIN self.categories : of(c) # <<>>} |->
                 entry(of(category), category)],
         savings_rate |-> savings_rate(total_income, total_expenses)]

budget_manager ==
    [categories |-> categories, transactions |-> transactions,
     monthly_budget |-> monthly_budget]

get_monthly_report(year, month) ==
    /\ returned' = monthly_report(budget_manager, year, month)
    /\ call' = [op |-> "get_monthly_report", year |-> year, month |-> month,
                raised |-> None]
    /\ UNCHANGED <<manager, advisor>>

\* line 110 with every nonzero target tracked
tracked_nonzero(budget) == budget # 0

tracked(budget) == budget > 0

\* get_budget_status as a function of the BudgetManager it is called on
budget_status(self) ==
    LET entry(budget, spent) ==
            [budget |-> budget,
             spent |-> spent,
             remaining |-> budget - spent,
             percentage_used |->
                 IF budget > 0
                 THEN RatMul(RatDiv(RatInt(spent), RatInt(budget)), RatInt(100))
                 ELSE RatInt(0)]
    IN  [category \in {c \in DOMAIN self.categories : tracked(get_budget(self, c))} |->
            entry(get_budget(self, category), self.categories[category])]

get_budget_status ==
    /\ returned' = budget_status(budget_manager)
    /\ call' = [op |-> "get_budget_status", raised |-> None]
    /\ UNCHANGED <<manager, advisor>>

(***************************************************************************)
(* InvestmentAdvisor                                                       *)
(***************************************************************************)
StockMarkets == {"bull", "bear", "neutral"}
EconomicOutlooks == {"positive", "negative", "neutral"}
\* random.uniform(0.5, 5.0): both ends and the two sides of the threshold 3
InterestRates == {<<1, 2>>, <<3, 1>>, <<5, 1>>}

simulate_market_conditions ==
    [stock_market : StockMarkets,
     interest_rates : InterestRates,
     economic_outlook : EconomicOutlooks]

InvestmentAdvisorInit ==
    /\ risk_tolerance = None
    /\ investment_goals = None
    /\ market_conditions \in simulate_market_conditions

set_user_profile(risk, goals) ==
    /\ risk_tolerance' = risk
    /\ investment_goals' = goals
    /\ call' = [op |-> "set_investment_profile", raised |-> None]
    /\ returned' = None
    /\ UNCHANGED <<manager, market_conditions>>

Advice(text) == [text |-> text]

provide_investment_advice(monthly_report_) ==
    LET rate == monthly_report_.savings_rate
        by_risk ==
            IF risk_tolerance = "low" THEN <<Advice("low-risk investments")>>
            ELSE IF risk_tolerance = "medium" THEN <<Advice("balanced portfolio")>>
            ELSE IF risk_tolerance = "high" THEN <<Advice("stock-heavy portfolio")>>
            ELSE <<>>
        by_market ==
            IF market_conditions.stock_market = "bull"
            THEN <<Advice("market is bullish")>>
            ELSE IF market_conditions.stock_market = "bear"
            THEN <<Advice("market is bearish")>>
            ELSE <<>>
        by_rates ==
            IF RatLess(RatInt(3), market_conditions.interest_rates)
            THEN <<[text |-> "high interest rates",
                    interest_rates |-> market_conditions.interest_rates]>>
            ELSE <<>>
        by_goals ==
            IF investment_goals = "retirement"
            THEN <<Advice("tax-advantaged accounts")>>
            ELSE IF investment_goals = "short_term"
            THEN <<Advice("liquid and low-risk investments")>>
            ELSE <<>>
    IN  IF risk_tolerance = None \/ investment_goals = None
        THEN <<Advice("set your risk tolerance and investment goals")>>
        ELSE IF RatLess(rate, RatInt(10))
        THEN <<Advice("increase your savings rate before investing")>>
        ELSE by_risk \o by_market \o by_rates \o by_goals

(***************************************************************************)
(* TaxAssistant                                                            *)
(***************************************************************************)
inf == 2147483647

tax_brackets ==
    << [lower |-> 0,      upper |-> 9950,   rate |-> Rat(10, 100)],
       [lower |-> 9951,   upper |-> 40525,  rate |-> Rat(12, 100)],
       [lower |-> 40526,  upper |-> 86375,  rate |-> Rat(22, 100)],
       [lower |-> 86376,  upper |-> 164925, rate |-> Rat(24, 100)],
       [lower |-> 164926, upper |-> 209425, rate |-> Rat(32, 100)],
       [lower |-> 209426, upper |-> 523600, rate |-> Rat(35, 100)],
       [lower |-> 523601, upper |-> inf,    rate |-> Rat(37, 100)] >>

standard_deduction == 12550

\* line 186 without the standard deduction
taxable_without_deduction(income) == max(income, 0)

taxable_income(income) == max(income - standard_deduction, 0)

\* lines 188-190: the part of the taxable income each bracket taxes, in the
\* table's order (0 for a bracket the taxable income does not reach)
taxed_portions(taxable) ==
    [i \in DOMAIN tax_brackets |->
        IF taxable > tax_brackets[i].lower
        THEN min(taxable, tax_brackets[i].upper) - tax_brackets[i].lower
        ELSE 0]

tax_liability(income) ==
    LET portions == taxed_portions(taxable_income(income))
        RECURSIVE tax(_)
        tax(i) == IF i = 0 THEN RatInt(0)
                  ELSE RatAdd(tax(i - 1),
                              RatMul(RatInt(portions[i]), tax_brackets[i].rate))
    IN  tax(Len(tax_brackets))

calculate_tax_liability(income) ==
    /\ returned' = tax_liability(income)
    /\ call' = [op |-> "calculate_tax_liability", income |-> income, raised |-> None]
    /\ UNCHANGED <<manager, advisor>>

get(dict, key, default) == IF key \in DOMAIN dict THEN dict[key] ELSE default

\* provide_tax_advice: the exception it raises, or the advice it returns
tax_advice(income, expenses) ==
    LET liability == tax_liability(income)
        hint(condition, text) == IF condition THEN <<Advice(text)>> ELSE <<>>
    IN  IF income = 0
        THEN [raised |-> "ZeroDivisionError", value |-> None]
        ELSE [raised |-> None,
              value |->
                <<[text |-> "estimated tax liability", income |-> income,
                   tax_liability |-> liability],
                  [text |-> "effective tax rate",
                   rate |-> RatMul(RatDiv(liability, RatInt(income)), RatInt(100))]>>
                \o hint(get(expenses, "mortgage_interest", 0) > 0,
                        "mortgage interest deduction")
                \o hint(get(expenses, "charitable_contributions", 0) > 0,
                        "charitable contributions")
                \o hint(RatLess(RatMul(Rat(75, 1000), RatInt(income)),
                                RatInt(get(expenses, "medical_expenses", 0))),
                        "medical expenses exceeding 7.5% of income")
                \o hint(get(expenses, "child_care", 0) > 0,
                        "Child and Dependent Care Credit")
                \o hint(get(expenses, "education", 0) > 0,
                        "education-related tax credits")
                \o <<Advice("keep all receipts"), Advice("deadline is April 15th")>>]

provide_tax_advice(income, expenses) ==
    /\ returned' = tax_advice(income, expenses).value
    /\ call' = [op |-> "provide_tax_advice", income |-> income,
                raised |-> tax_advice(income, expenses).raised]
    /\ UNCHANGED <<manager, advisor>>

(***************************************************************************)
(* FinancialAIAgent                                                        *)
(***************************************************************************)
AgentInit ==
    /\ BudgetManagerInit
    /\ InvestmentAdvisorInit
    /\ call = [op |-> "__init__", category |-> None, raised |-> None]
    /\ returned = None

set_investment_profile(risk, goals) == set_user_profile(risk, goals)

\* _generate_recommendations: the exception it raises, or the list it returns
generate_recommendations(monthly_report_) ==
    LET income == monthly_report_.total_income
        by_category == monthly_report_.transactions_by_category
        savings ==
            IF RatLess(monthly_report_.savings_rate, RatInt(20))
            THEN <<Advice("increase your savings rate to at least 20%")>>
            ELSE <<>>
        housing ==
            IF "Housing" \in DOMAIN by_category
               /\ RatLess(RatMul(RatInt(income), Rat(3, 10)),
                          RatInt(by_category["Housing"].total))
            THEN <<Advice("housing costs exceed 30% of income")>>
            ELSE <<>>
        investment_advice == provide_investment_advice(monthly_report_)
        expense_dict == [c \in DOMAIN by_category |-> by_category[c].total]
        tax == tax_advice(income, expense_dict)
    IN  IF tax.raised # None
        THEN [raised |-> tax.raised, value |-> None]
        ELSE [raised |-> None,
              value |-> savings \o housing \o investment_advice \o tax.value]

generate_financial_report(year, month) ==
    LET monthly_report_ == monthly_report(budget_manager, year, month)
        recommendations == generate_recommendations(monthly_report_)
    IN  /\ call' = [op |-> "generate_financial_report", year |-> year,
                    month |-> month, raised |-> recommendations.raised]
        /\ returned' =
             IF recommendations.raised # None THEN None
             ELSE [period |-> <<year, month>>,
                   income_summary |->
                       [total_income |-> monthly_report_.total_income,
                        total_expenses |-> monthly_report_.total_expenses,
                        net_income |-> monthly_report_.total_income
                                         - monthly_report_.total_expenses,
                        savings_rate |-> monthly_report_.savings_rate],
                   spending_by_category |-> monthly_report_.transactions_by_category,
                   recommendations |-> recommendations.value]
        /\ UNCHANGED <<manager, advisor>>

(***************************************************************************)
(* Inputs of the calls.                                                    *)
(***************************************************************************)
Unregistered == {"Crypto"}
CategoryNames == {"Housing", "Income"} \cup Unregistered
Amounts == -1 .. MaxAmount
TransactionTypes == {"expense", "income", "transfer"}
Dates == {<<2024, 1>>, <<2024, 2>>, <<2025, 1>>}

\* A BudgetManager on its own: no InvestmentAdvisor is constructed.
NoAdvisor ==
    /\ risk_tolerance = None
    /\ investment_goals = None
    /\ market_conditions = None

Init ==
    /\ BudgetManagerInit
    /\ NoAdvisor
    /\ call = [op |-> "__init__", category |-> None, raised |-> None]
    /\ returned = None

(***************************************************************************)
(* Spec: the ledger and the budget targets under add_transaction and       *)
(* set_budget.                                                             *)
(***************************************************************************)
AddTransaction ==
    \E amount \in Amounts, category \in CategoryNames,
       transaction_type \in TransactionTypes :
        /\ Len(transactions) < MaxTx \/ category \in Unregistered
        /\ add_transaction(amount, category, "d", transaction_type, <<2024, 1>>)

SetBudget ==
    \E category \in {"Housing"} \cup Unregistered, amount \in Amounts :
        set_budget(category, amount)

Next == AddTransaction \/ SetBudget

Spec == Init /\ [][Next]_vars

Last(s) == s[Len(s)]

\* C1: a call of add_transaction or set_budget with a category that is not in
\* the registry raises the invalid-category error and leaves the ledger, every
\* running total and every budget target as they were.
C1_InvalidCategoryChangesNothing ==
    [][(call'.op \in {"add_transaction", "set_budget"}
        /\ call'.category \notin Registry)
       => (call'.raised = "ValueError" /\ UNCHANGED manager)]_vars

C1_Witness ==
    /\ call.op = "add_transaction"
    /\ call.raised = "ValueError"
    /\ Len(transactions) = 1
    /\ "Housing" \in DOMAIN monthly_budget

\* C2: a successful add_transaction of an expense of amount a >= 0 in category
\* C adds exactly a to the running total of C and changes no other running
\* total and no budget target.
C2_ExpenseCreditsItsCategory ==
    [][(/\ call'.op = "add_transaction"
        /\ call'.raised = None
        /\ Len(transactions') > 0
        /\ Last(transactions').transaction_type = "expense"
        /\ Last(transactions').amount >= 0)
       => (/\ \A c \in Registry :
                categories'[c] =
                    IF c = Last(transactions').category
                    THEN categories[c] + Last(transactions').amount
                    ELSE categories[c]
           /\ monthly_budget' = monthly_budget)]_vars

C2_Witness ==
    /\ call.op = "add_transaction"
    /\ Len(transactions) = 2
    /\ \A i \in 1..2 : /\ transactions[i].transaction_type = "expense"
                       /\ transactions[i].category = "Housing"
                       /\ transactions[i].amount = 1
    /\ categories["Housing"] = 2

\* C3: a successful add_transaction of an income of amount a >= 0 in category
\* C adds exactly a to the running total of 'Income' and changes no other
\* running total, that of C included when C is not 'Income'.
C3_IncomeCreditsIncome ==
    [][(/\ call'.op = "add_transaction"
        /\ call'.raised = None
        /\ Len(transactions') > 0
        /\ Last(transactions').transaction_type = "income"
        /\ Last(transactions').amount >= 0)
       => (\A c \in Registry :
                categories'[c] =
                    IF c = "Income"
                    THEN categories[c] + Last(transactions').amount
                    ELSE categories[c])]_vars

C3_Witness ==
    /\ call.op = "add_transaction"
    /\ Len(transactions) > 0
    /\ Last(transactions).transaction_type = "income"
    /\ Last(transactions).category = "Housing"
    /\ Last(transactions).amount = 2
    /\ categories["Income"] = 2
    /\ categories["Housing"] = 0

\* The sum of the amounts of the ledger's transactions that Keep accepts.
LedgerSum(Keep(_)) ==
    LET RECURSIVE upto(_)
        upto(i) == IF i = 0 THEN 0
                   ELSE upto(i - 1) + (IF Keep(transactions[i])
                                       THEN transactions[i].amount ELSE 0)
    IN  upto(Len(transactions))

C10_TotalsAgree ==
    /\ \A c \in Registry \ {"Income"} :
         LET ExpenseOfC(t) == t.category = c /\ t.transaction_type = "expense"
         IN  categories[c] = LedgerSum(ExpenseOfC)
    /\ LET ToIncome(t) == \/ t.transaction_type # "expense"
                          \/ t.category = "Income"
       IN  categories["Income"] = LedgerSum(ToIncome)
    /\ \A i \in DOMAIN transactions : transactions[i].category \in Registry

C10_AppendOnly ==
    \/ transactions' = transactions
    \/ /\ Len(transactions') = Len(transactions) + 1
       /\ SubSeq(transactions', 1, Len(transactions)) = transactions

\* C10: after any sequence of set_budget and add_transaction calls the running
\* totals agree with the ledger (every category but 'Income' totals its own
\* expenses; 'Income' totals every non-expense transaction and the expenses of
\* category 'Income'), every ledger entry's category is registered, and the
\* ledger only grows by appending.
C10_TotalsFollowLedger == [](C10_TotalsAgree) /\ [][C10_AppendOnly]_vars

C10_Witness ==
    /\ Len(transactions) = 2
    /\ transactions[1].transaction_type = "transfer"
    /\ transactions[1].category = "Housing"
    /\ transactions[1].amount = 2
    /\ transactions[2].transaction_type = "expense"
    /\ transactions[2].category = "Income"
    /\ transactions[2].amount = 1
    /\ categories["Income"] = 3
    /\ call.op = "set_budget"
    /\ call.raised = "ValueError"

(***************************************************************************)
(* SpecReport: the monthly report over ledgers with dated transactions.    *)
(***************************************************************************)
ReportAmounts == {1, MaxAmount}

AddDatedTransaction ==
    \E amount \in ReportAmounts, category \in {"Housing", "Income"},
       transaction_type \in TransactionTypes, transaction_date \in Dates :
        /\ Len(transactions) < MaxTx
        /\ add_transaction(amount, category, "d", transaction_type, transaction_date)

SetHousingBudget == set_budget("Housing", MaxAmount)

GetMonthlyReport == \E p \in Dates : get_monthly_report(p[1], p[2])

NextReport == AddDatedTransaction \/ SetHousingBudget \/ GetMonthlyReport

SpecReport == Init /\ [][NextReport]_vars

C4_TotalsOfPeriod ==
    call.op = "get_monthly_report" =>
        LET IncomeIn(t) == /\ t.transaction_type = "income"
                           /\ t.date = <<call.year, call.month>>
            ExpenseIn(t) == /\ t.transaction_type = "expense"
                            /\ t.date = <<call.year, call.month>>
        IN  /\ returned.total_income = LedgerSum(IncomeIn)
            /\ returned.total_expenses = LedgerSum(ExpenseIn)

C4_OutsideLeavesReport ==
    \A p \in Dates :
        (/\ call'.op = "add_transaction"
         /\ call'.raised = None
         /\ Len(transactions') > 0
         /\ Last(transactions').date # p)
        => monthly_report([categories |-> categories',
                            transactions |-> transactions',
                            monthly_budget |-> monthly_budget'], p[1], p[2])
               = monthly_report(budget_manager, p[1], p[2])

\* C4: get_monthly_report(year, month) returns as total_income the sum of the
\* amounts of the income transactions dated in that year and month and as
\* total_expenses the sum of those of the expense transactions dated in it,
\* and adding a transaction dated outside that year and month leaves the
\* whole report of that year and month unchanged.
C4_ReportOfPeriod == [](C4_TotalsOfPeriod) /\ [][C4_OutsideLeavesReport]_vars

C4_Witness ==
    /\ call.op = "get_monthly_report"
    /\ call.year = 2024 /\ call.month = 1
    /\ Len(transactions) = 2
    /\ transactions[1].date = <<2024, 1>>
    /\ transactions[1].transaction_type = "income"
    /\ transactions[2].date = <<2024, 2>>
    /\ transactions[2].transaction_type = "income"
    /\ returned.total_income = transactions[1].amount
    /\ "Housing" \in DOMAIN monthly_budget

\* C8: the savings_rate of get_monthly_report is
\* (total_income - total_expenses) / total_income * 100 when the period's
\* total_income is above 0 and 0 when it is 0, and the call raises nothing in
\* either case.
C8_SavingsRate ==
    call.op = "get_monthly_report" =>
        LET IncomeIn(t) == /\ t.transaction_type = "income"
                           /\ t.date = <<call.year, call.month>>
            ExpenseIn(t) == /\ t.transaction_type = "expense"
                            /\ t.date = <<call.year, call.month>>
            income == LedgerSum(IncomeIn)
            expenses == LedgerSum(ExpenseIn)
            rate == returned.savings_rate
        IN  /\ call.raised = None
            /\ income > 0 => /\ rate[2] > 0
                             /\ rate[1] * income = (income - expenses) * 100 * rate[2]
            /\ income = 0 => rate = <<0, 1>>

C8_Witness ==
    /\ call.op = "get_monthly_report"
    /\ returned.total_income = 2
    /\ returned.total_expenses = 1
    /\ returned.savings_rate = <<50, 1>>

(***************************************************************************)
(* SpecStatus: the budget status over budget targets and running totals.   *)
(***************************************************************************)
AddPlainTransaction ==
    \E amount \in ReportAmounts, category \in {"Housing", "Income"},
       transaction_type \in {"expense", "income"} :
        /\ Len(transactions) < MaxTx
        /\ add_transaction(amount, category, "d", transaction_type, <<2024, 1>>)

SetAnyBudget ==
    \E category \in {"Housing", "Income"}, amount \in Amounts :
        set_budget(category, amount)

GetBudgetStatus == get_budget_status

NextStatus == AddPlainTransaction \/ SetAnyBudget \/ GetBudgetStatus

SpecStatus == Init /\ [][NextStatus]_vars

C7_Entries(Tracked(_)) ==
    /\ DOMAIN returned = {c \in Registry : Tracked(c)}
    /\ \A c \in DOMAIN returned :
         /\ returned[c].budget = monthly_budget[c]
         /\ returned[c].spent = categories[c]
         /\ returned[c].remaining = monthly_budget[c] - categories[c]
         /\ returned[c].percentage_used[2] # 0
         /\ returned[c].percentage_used[1] * monthly_budget[c]
                = categories[c] * 100 * returned[c].percentage_used[2]

\* C7 as claimed: get_budget_status returns an entry for every category whose
\* target is nonzero and for no category whose target is 0 or unset, each
\* entry with budget = target, spent = running total, remaining = target -
\* spent and percentage_used = spent / target * 100.
C7_EntryForEveryNonzeroTarget ==
    call.op = "get_budget_status" =>
        LET Nonzero(c) == c \in DOMAIN monthly_budget /\ monthly_budget[c] # 0
        IN  C7_Entries(Nonzero)

\* C7 as amended: get_budget_status returns an entry for every category whose
\* target is greater than 0 and for no category whose target is 0, negative
\* or unset, each entry with budget = target, spent = running total,
\* remaining = target - spent and percentage_used = spent / target * 100.
C7_EntryForEveryPositiveTarget ==
    call.op = "get_budget_status" =>
        LET Positive(c) == c \in DOMAIN monthly_budget /\ monthly_budget[c] > 0
        IN  C7_Entries(Positive)

C7_Witness ==
    /\ call.op = "get_budget_status"
    /\ DOMAIN monthly_budget = {"Housing", "Income"}
    /\ monthly_budget["Housing"] = 2
    /\ monthly_budget["Income"] = 0
    /\ categories["Housing"] = 1
    /\ DOMAIN returned = {"Housing"}
    /\ returned["Housing"].remaining = 1
    /\ returned["Housing"].percentage_used = <<50, 1>>

(***************************************************************************)
(* SpecTax: the TaxAssistant on incomes around every bracket edge.         *)
(***************************************************************************)
BracketEdges ==
    ({tax_brackets[i].lower : i \in DOMAIN tax_brackets}
        \cup {tax_brackets[i].upper : i \in DOMAIN tax_brackets}) \ {inf}

TaxIncomes ==
    (0 .. Delta) \cup {9950}
        \cup {standard_deduction + e + d : e \in BracketEdges, d \in (-Delta) .. Delta}

ExpenseDicts ==
    UNION {[S -> {1}] : S \in SUBSET {"mortgage_interest", "medical_expenses",
                                      "education"}}

CalculateTaxLiability == \E income \in TaxIncomes : calculate_tax_liability(income)

ProvideTaxAdvice ==
    \E income \in TaxIncomes, expenses \in ExpenseDicts :
        provide_tax_advice(income, expenses)

NextTax == CalculateTaxLiability \/ ProvideTaxAdvice

SpecTax == Init /\ [][NextTax]_vars

\* C6 as claimed: calculate_tax_liability(0) returns 0 and
\* calculate_tax_liability(9950) returns 995.0.
C6_TaxOf9950Is995 ==
    call.op = "calculate_tax_liability" =>
        /\ call.income = 0 => returned = <<0, 1>>
        /\ call.income = 9950 => returned = <<995, 1>>

\* C6 as amended: calculate_tax_liability(0) returns 0, and so does
\* calculate_tax_liability(9950), an income below the standard deduction of
\* 12550; 995.0 (10% of 9950, the top of the first bracket) is what
\* calculate_tax_liability(22500) returns, the income whose taxable part is 9950.
C6_TaxOfTaxable9950Is995 ==
    call.op = "calculate_tax_liability" =>
        /\ call.income = 0 => returned = <<0, 1>>
        /\ call.income = 9950 => returned = <<0, 1>>
        /\ call.income = 22500 => returned = <<995, 1>>

C6_Witness ==
    /\ call.op = "calculate_tax_liability"
    /\ call.income = 22500
    /\ returned = <<995, 1>>

\* C9: the bracket table is contiguous (the first lower bound is 0, every
\* other lower bound is the upper bound of the bracket before, the last upper
\* bound is unbounded), so the portions calculate_tax_liability taxes add up
\* to exactly the taxable income.
C9_PortionsCoverTaxable ==
    call.op = "calculate_tax_liability" =>
        /\ tax_brackets[1].lower = 0
        /\ \A i \in 2 .. Len(tax_brackets) :
             tax_brackets[i].lower = tax_brackets[i - 1].upper
        /\ tax_brackets[Len(tax_brackets)].upper = inf
        /\ sum(taxed_portions(taxable_income(call.income)))
               = taxable_income(call.income)

(***************************************************************************)
(* SpecAgent: the whole agent, from its construction.                      *)
(***************************************************************************)
AddHousingTransaction ==
    \E amount \in ReportAmounts, transaction_type \in {"expense", "income"} :
        /\ Len(transactions) < MaxTx
        /\ add_transaction(amount, "Housing", "d", transaction_type, <<2024, 1>>)

SetInvestmentProfile ==
    \E risk \in {"low", "medium", "high"}, goals \in {"retirement", "short_term"} :
        set_investment_profile(risk, goals)

GenerateFinancialReport ==
    \E p \in {<<2024, 1>>, <<2024, 2>>} : generate_financial_report(p[1], p[2])

AdviseOnTax == \E income \in 0 .. MaxAmount : provide_tax_advice(income, <<>>)

NextAgent ==
    \/ AddHousingTransaction
    \/ SetInvestmentProfile
    \/ GenerateFinancialReport
    \/ AdviseOnTax

SpecAgent == AgentInit /\ [][NextAgent]_vars

\* C5: provide_tax_advice(0, expenses) raises nothing and returns its advice
\* list with a defined effective rate, and generate_financial_report for a
\* period with no income (a period with no transactions included) returns a
\* report instead of failing.
C5_ZeroIncomeDoesNotRaise ==
    /\ (call.op = "provide_tax_advice" /\ call.income = 0)
         => (call.raised = None /\ returned # None)
    /\ call.op = "generate_financial_report"
         => LET IncomeIn(t) == /\ t.transaction_type = "income"
                               /\ t.date = <<call.year, call.month>>
            IN  LedgerSum(IncomeIn) = 0 => (call.raised = None /\ returned # None)

====
